---- MODULE Spec2Model ----
(***************************************************************************)
(* Shift planning core of src/plan/__init__.py:                            *)
(*   employee_assignment            Kuhn matching + backtracking enumerator *)
(*   score_assignment_quantity      producible-quantity score               *)
(*   schedule_orders_greedy_nosplit greedy non-splitting scheduler          *)
(*   main                           selection of the best assignment        *)
(* Line, employee, material and order identifiers are strings in the       *)
(* program; they are modelled by naturals, whose order stands for the      *)
(* string order ("L1" < "L2" < "L3").                                      *)
(***************************************************************************)
EXTENDS Integers, Sequences, FiniteSets, TLC

VARIABLES
  pc,                    \* position of the running function
  \* request body (main, lines 180-195)
  lines_available,       \* sequence of line identifiers
  employees_available,   \* sequence of [id, qualifiedLines]
  production_orders,     \* sequence of [order_number, material_number, quantity, time_to_complete]
  materials,             \* sequence of [material_number, line]
  shift_start,           \* seconds on the time axis
  shift_length_seconds,
  \* employee_assignment
  li,                    \* index of the `for line in lines_available` loop
  match_emp_to_line,     \* Kuhn matching: employee id -> line id
  max_size,              \* len(match_emp_to_line) after the loop
  ordered_lines,         \* lines sorted by candidate count
  results_set,           \* set of normalised maximum matchings
  used_emps,             \* employees used on the current branch
  cur_pairs,             \* (line, employee) pairs of the current branch
  stack,                 \* call stack of backtrack: frames [i, k, em]
  results,               \* list returned by employee_assignment
  \* main
  ci,                    \* index of the `for i, combo in enumerate(assignments)` loop
  best_idx,
  best_qty,
  resp,                  \* response body
  \* schedule_orders_greedy_nosplit
  available_lines,
  enriched,
  ji,                    \* index of the `for job in enriched` loop
  line_time_used,
  per_line_sequence,
  \* score_assignment_quantity
  lines_for_combo,
  po_i,                  \* index of the `for po in production_orders` loop
  total_qty

inputs == <<lines_available, employees_available, production_orders, materials,
            shift_start, shift_length_seconds>>
assignVars == <<li, match_emp_to_line, max_size, ordered_lines, results_set,
                used_emps, cur_pairs, stack, results>>
mainVars == <<ci, best_idx, best_qty, resp>>
schedVars == <<available_lines, enriched, ji, line_time_used, per_line_sequence>>
scoreVars == <<lines_for_combo, po_i, total_qty>>

vars == <<pc, inputs, assignVars, mainVars, schedVars, scoreVars>>

(***************************************************************************)
(* Bounds of the model and the identifier universes.                       *)
(***************************************************************************)
MaxLines == 3                   \* length of lines_available (employee_assignment)
MaxEmps == 2                    \* length of employees_available (employee_assignment)
MaxOrders == 2                  \* length of production_orders (scheduler, scorer)
LineIds == {1, 2, 3}
EmpIds == {1, 2}
MatIds == {1, 2}
OrderIds == 1..MaxOrders
Quantities == {0, 1, 2}
PositiveQuantities == {1, 2}
HalfSeconds == {0, 1, 2}        \* time_to_complete 0 s, 0.5 s, 1 s
ShiftLengths == {0, 2, 3}
ShiftStarts == {100}
SchedLineIds == {1, 2}          \* lines of the scheduler, the scorer and main

BSeq(S, n) == UNION {[1..m -> S] : m \in 0..n}
Range(s) == {s[k] : k \in 1..Len(s)}
Min2(a, b) == IF a <= b THEN a ELSE b

Employee == [id : EmpIds, qualifiedLines : SUBSET LineIds]
Order == [order_number : OrderIds, material_number : MatIds,
          quantity : PositiveQuantities, time_to_complete : HalfSeconds]
Material == [material_number : MatIds, line : SUBSET SchedLineIds]

\* orders numbered by position, each unit taking one second
PlainOrders(n) ==
  UNION {{[k \in 1..m |-> [order_number |-> k, material_number |-> f[k][1],
                           quantity |-> f[k][2], time_to_complete |-> 2]] :
            f \in [1..m -> MatIds \X Quantities]} : m \in 0..n}

\* the request bodies of score_assignment_quantity and of main
LineLists == BSeq(SchedLineIds, 2)
MaterialLists == BSeq(Material, 2)
RequestEmployees == BSeq([id : EmpIds, qualifiedLines : SUBSET SchedLineIds], 2)
RequestOrders == PlainOrders(2)
RequestMaterials == BSeq(Material, 1)
RequestShiftLengths == {0, 3}

\* order numbers identify the orders of a request
DistinctOrderNumbers(s) ==
  \A j \in 1..Len(s) : \A k \in 1..Len(s) : j # k => s[j].order_number # s[k].order_number

(***************************************************************************)
(* employee_assignment: the qualification graph.                           *)
(***************************************************************************)
\* [emp["id"] for emp in employees_available if line in emp.get("qualifiedLines", [])]
RECURSIVE QualifiedEmps(_, _)
QualifiedEmps(line, k) ==
  IF k > Len(employees_available) THEN <<>>
  ELSE IF line \in employees_available[k].qualifiedLines
       THEN <<employees_available[k].id>> \o QualifiedEmps(line, k + 1)
       ELSE QualifiedEmps(line, k + 1)

\* line_to_emps.get(line, [])
LineToEmps(line) ==
  IF line \in Range(lines_available) THEN QualifiedEmps(line, 1) ELSE <<>>

(***************************************************************************)
(* try_augment(line, seen): the depth-first augmenting-path search.  The   *)
(* result carries the return value and the two mutated objects.  k is the  *)
(* position of the `for emp in ...` loop.                                  *)
(***************************************************************************)
RECURSIVE TryAugmentFrom(_, _, _, _)
TryAugmentFrom(line, k, seen, match) ==
  LET cands == LineToEmps(line) IN
  IF k > Len(cands) THEN [ok |-> FALSE, seen |-> seen, match |-> match]
  ELSE
    LET emp == cands[k] IN
    IF emp \in seen THEN TryAugmentFrom(line, k + 1, seen, match)
    ELSE
      LET seen1 == seen \cup {emp} IN
      IF emp \notin DOMAIN match
      THEN [ok |-> TRUE, seen |-> seen1, match |-> (emp :> line) @@ match]
      ELSE
        LET r == TryAugmentFrom(match[emp], 1, seen1, match) IN
        IF r.ok
        THEN [ok |-> TRUE, seen |-> r.seen, match |-> (emp :> line) @@ r.match]
        ELSE TryAugmentFrom(line, k + 1, r.seen, r.match)

TryAugment(line, seen, match) == TryAugmentFrom(line, 1, seen, match)

(***************************************************************************)
(* Sorting helpers.                                                        *)
(***************************************************************************)
CandidateCount(ln) == Len(LineToEmps(ln))

\* sorted() is stable: a line goes after the last line whose candidate
\* count is not greater.
RECURSIVE InsertLine(_, _)
InsertLine(x, s) ==
  IF s = <<>> THEN <<x>>
  ELSE IF CandidateCount(s[Len(s)]) <= CandidateCount(x) THEN Append(s, x)
       ELSE Append(InsertLine(x, SubSeq(s, 1, Len(s) - 1)), s[Len(s)])

RECURSIVE SortLines(_)
SortLines(s) ==
  IF s = <<>> THEN <<>>
  ELSE InsertLine(s[Len(s)], SortLines(SubSeq(s, 1, Len(s) - 1)))

\* sorted(lines_available, key=lambda ln: len(line_to_emps.get(ln, [])))
OrderedLines == SortLines(lines_available)

\* Python tuple order on (line, emp) pairs
PairLess(p, q) == p[1] < q[1] \/ (p[1] = q[1] /\ p[2] < q[2])

RECURSIVE InsertPair(_, _)
InsertPair(p, s) ==
  IF s = <<>> THEN <<p>>
  ELSE IF ~PairLess(p, s[Len(s)]) THEN Append(s, p)
       ELSE Append(InsertPair(p, SubSeq(s, 1, Len(s) - 1)), s[Len(s)])

\* tuple(sorted(cur_pairs))
RECURSIVE SortPairs(_)
SortPairs(s) ==
  IF s = <<>> THEN <<>>
  ELSE InsertPair(s[Len(s)], SortPairs(SubSeq(s, 1, Len(s) - 1)))

\* Python list order on lists of (line, emp) pairs
RECURSIVE LexLess(_, _)
LexLess(a, b) ==
  IF a = <<>> THEN b # <<>>
  ELSE IF b = <<>> THEN FALSE
  ELSE IF PairLess(a[1], b[1]) THEN TRUE
  ELSE IF PairLess(b[1], a[1]) THEN FALSE
  ELSE LexLess(Tail(a), Tail(b))

\* results = [...for combo in results_set]; results.sort(key=...)
RECURSIVE SortResults(_)
SortResults(S) ==
  IF S = {} THEN <<>>
  ELSE LET m == CHOOSE x \in S : \A y \in S \ {x} : LexLess(x, y)
       IN <<m>> \o SortResults(S \ {m})

(***************************************************************************)
(* employee_assignment as a state machine.                                 *)
(***************************************************************************)
InitAssignVars ==
  /\ li = 1
  /\ match_emp_to_line = <<>>
  /\ max_size = 0
  /\ ordered_lines = <<>>
  /\ results_set = {}
  /\ used_emps = {}
  /\ cur_pairs = <<>>
  /\ stack = <<>>
  /\ results = <<>>

\* best_idx = 0; best_qty = -1 (indices are 1-based here)
InitMainVars ==
  /\ ci = 1
  /\ best_idx = 1
  /\ best_qty = -1
  /\ resp = <<>>

InitSchedVars ==
  /\ available_lines = <<>>
  /\ enriched = <<>>
  /\ ji = 1
  /\ line_time_used = <<>>
  /\ per_line_sequence = <<>>

InitScoreVars ==
  /\ lines_for_combo = <<>>
  /\ po_i = 1
  /\ total_qty = 0

NoOrders ==
  /\ production_orders = <<>>
  /\ materials = <<>>
  /\ shift_start = 0
  /\ shift_length_seconds = 0

\* employee_assignment called on its own
InitAssign ==
  /\ pc = "kuhn"
  /\ lines_available \in BSeq(LineIds, MaxLines)
  /\ employees_available \in BSeq(Employee, MaxEmps)
  /\ NoOrders
  /\ InitAssignVars /\ InitMainVars /\ InitSchedVars /\ InitScoreVars

\* for line in lines_available: try_augment(line, set())
TryAugmentLine ==
  /\ pc = "kuhn"
  /\ li <= Len(lines_available)
  /\ match_emp_to_line' = TryAugment(lines_available[li], {}, match_emp_to_line).match
  /\ li' = li + 1
  /\ UNCHANGED <<pc, max_size, ordered_lines, results_set, used_emps, cur_pairs,
                 stack, results>>
  /\ UNCHANGED <<inputs, mainVars, schedVars, scoreVars>>

MatchSize == Cardinality(DOMAIN match_emp_to_line)

\* the mutant: the early return is never taken
NeverEmpty(n) == FALSE

\* if max_size == 0
IsEmpty(n) == n = 0

\* max_size = len(match_emp_to_line); if max_size == 0: return []
ReturnEmpty ==
  /\ pc = "kuhn"
  /\ li > Len(lines_available)
  /\ IsEmpty(MatchSize)
  /\ max_size' = MatchSize
  /\ results' = <<>>
  /\ pc' = "returned"
  /\ UNCHANGED <<li, match_emp_to_line, ordered_lines, results_set, used_emps,
                 cur_pairs, stack>>
  /\ UNCHANGED <<inputs, mainVars, schedVars, scoreVars>>

Frame(i) == [i |-> i, k |-> 0, em |-> 0]

\* lines 36-41 and the call backtrack(0); line indices are 1-based here
StartBacktrack ==
  /\ pc = "kuhn"
  /\ li > Len(lines_available)
  /\ ~IsEmpty(MatchSize)
  /\ max_size' = MatchSize
  /\ ordered_lines' = OrderedLines
  /\ results_set' = {}
  /\ used_emps' = {}
  /\ cur_pairs' = <<>>
  /\ stack' = <<Frame(1)>>
  /\ pc' = "backtrack"
  /\ UNCHANGED <<li, match_emp_to_line, results>>
  /\ UNCHANGED <<inputs, mainVars, schedVars, scoreVars>>

\* total_emps = len({emp["id"] for emp in employees_available})
TotalEmps == Cardinality({employees_available[k].id : k \in 1..Len(employees_available)})

Top == stack[Len(stack)]

\* the mutant: a branch that can exactly reach max_size is cut too
PrunedOffByOne(i, pairs, used) ==
  LET remaining_lines == Len(ordered_lines) - (i - 1)
      remaining_emps == TotalEmps - Cardinality(used)
  IN Len(pairs) + Min2(remaining_lines, remaining_emps) <= max_size

\* the test at the top of backtrack(i)
Pruned(i, pairs, used) ==
  LET remaining_lines == Len(ordered_lines) - (i - 1)
      remaining_emps == TotalEmps - Cardinality(used)
  IN Len(pairs) + Min2(remaining_lines, remaining_emps) < max_size

\* A return of backtrack: the frame is popped and the caller, when the call
\* was the one of an assignment, executes cur_pairs.pop() and
\* used_emps.remove(emp).
Return ==
  LET rest == SubSeq(stack, 1, Len(stack) - 1) IN
  IF rest # <<>> /\ rest[Len(rest)].em # 0
  THEN /\ stack' = [rest EXCEPT ![Len(rest)].em = 0]
       /\ cur_pairs' = SubSeq(cur_pairs, 1, Len(cur_pairs) - 1)
       /\ used_emps' = used_emps \ {rest[Len(rest)].em}
  ELSE /\ stack' = rest
       /\ UNCHANGED <<cur_pairs, used_emps>>

BtFixed ==
  /\ UNCHANGED <<pc, li, match_emp_to_line, max_size, ordered_lines, results>>
  /\ UNCHANGED <<inputs, mainVars, schedVars, scoreVars>>

BtPrune ==
  /\ pc = "backtrack" /\ stack # <<>> /\ Top.k = 0
  /\ Pruned(Top.i, cur_pairs, used_emps)
  /\ Return
  /\ UNCHANGED results_set
  /\ BtFixed

BtLeaf ==
  /\ pc = "backtrack" /\ stack # <<>> /\ Top.k = 0
  /\ ~Pruned(Top.i, cur_pairs, used_emps)
  /\ Top.i = Len(ordered_lines) + 1
  /\ results_set' = IF Len(cur_pairs) = max_size
                    THEN results_set \cup {SortPairs(cur_pairs)}
                    ELSE results_set
  /\ Return
  /\ BtFixed

\* Option: skip line
BtSkip ==
  /\ pc = "backtrack" /\ stack # <<>> /\ Top.k = 0
  /\ ~Pruned(Top.i, cur_pairs, used_emps)
  /\ Top.i <= Len(ordered_lines)
  /\ stack' = Append([stack EXCEPT ![Len(stack)].k = 1], Frame(Top.i + 1))
  /\ UNCHANGED <<results_set, used_emps, cur_pairs>>
  /\ BtFixed

Candidates == LineToEmps(ordered_lines[Top.i])

\* for emp in candidates: if emp in used_emps: continue
BtContinue ==
  /\ pc = "backtrack" /\ stack # <<>> /\ Top.k >= 1
  /\ Top.k <= Len(Candidates)
  /\ Candidates[Top.k] \in used_emps
  /\ stack' = [stack EXCEPT ![Len(stack)].k = Top.k + 1]
  /\ UNCHANGED <<results_set, used_emps, cur_pairs>>
  /\ BtFixed

\* used_emps.add(emp); cur_pairs.append((line, emp)); backtrack(i + 1)
BtAssign ==
  /\ pc = "backtrack" /\ stack # <<>> /\ Top.k >= 1
  /\ Top.k <= Len(Candidates)
  /\ Candidates[Top.k] \notin used_emps
  /\ used_emps' = used_emps \cup {Candidates[Top.k]}
  /\ cur_pairs' = Append(cur_pairs, <<ordered_lines[Top.i], Candidates[Top.k]>>)
  /\ stack' = Append([stack EXCEPT ![Len(stack)] =
                        [i |-> Top.i, k |-> Top.k + 1, em |-> Candidates[Top.k]]],
                     Frame(Top.i + 1))
  /\ UNCHANGED results_set
  /\ BtFixed

\* the for loop is exhausted: backtrack(i) returns
BtReturn ==
  /\ pc = "backtrack" /\ stack # <<>> /\ Top.k >= 1
  /\ Top.k > Len(Candidates)
  /\ Return
  /\ UNCHANGED results_set
  /\ BtFixed

\* lines 72-76: convert, sort, return
SortReturn ==
  /\ pc = "backtrack" /\ stack = <<>>
  /\ results' = SortResults(results_set)
  /\ pc' = "returned"
  /\ UNCHANGED <<li, match_emp_to_line, max_size, ordered_lines, results_set,
                 used_emps, cur_pairs, stack>>
  /\ UNCHANGED <<inputs, mainVars, schedVars, scoreVars>>

NextAssign ==
  \/ TryAugmentLine
  \/ ReturnEmpty
  \/ StartBacktrack
  \/ BtPrune
  \/ BtLeaf
  \/ BtSkip
  \/ BtContinue
  \/ BtAssign
  \/ BtReturn
  \/ SortReturn

SpecAssign == InitAssign /\ [][NextAssign]_vars

(***************************************************************************)
(* score_assignment_quantity.                                              *)
(***************************************************************************)
\* {m["material_number"]: set(m.get("line", [])) for m in materials}, then
\* .get(material_number, set()): the last record of a material number wins
MatToLines(m) ==
  LET idx == {k \in 1..Len(materials) : materials[k].material_number = m} IN
  IF idx = {} THEN {}
  ELSE materials[CHOOSE k \in idx : \A j \in idx : j <= k].line

\* the mutant: an order counts only when every line of the set can run it
AllLinesAllowed(lines_set, allowed) == lines_set \subseteq allowed

\* if lines_set & allowed
AnyLineAllowed(lines_set, allowed) == lines_set \cap allowed # {}

\* one iteration of `for po in production_orders`
ScoreStep(total, po, lines) ==
  IF AnyLineAllowed(Range(lines), MatToLines(po.material_number))
  THEN total + po.quantity
  ELSE total

RECURSIVE ScoreFrom(_, _, _)
ScoreFrom(k, total, lines) ==
  IF k > Len(production_orders) THEN total
  ELSE ScoreFrom(k + 1, ScoreStep(total, production_orders[k], lines), lines)

\* score_assignment_quantity(lines, production_orders, materials)
Score(lines) == ScoreFrom(1, 0, lines)

ScoreLoop ==
  /\ pc = "score"
  /\ po_i <= Len(production_orders)
  /\ total_qty' = ScoreStep(total_qty, production_orders[po_i], lines_for_combo)
  /\ po_i' = po_i + 1
  /\ UNCHANGED <<pc, lines_for_combo, inputs, assignVars, mainVars, schedVars>>

ScoreReturn ==
  /\ pc = "score"
  /\ po_i > Len(production_orders)
  /\ pc' = "score_returned"
  /\ UNCHANGED <<scoreVars, inputs, assignVars, mainVars, schedVars>>

NextScore == ScoreLoop \/ ScoreReturn

(***************************************************************************)
(* schedule_orders_greedy_nosplit.  time_to_complete is a float in the     *)
(* program; the model draws it from the multiples of 1/2 second and keeps  *)
(* the number of half seconds.  Timestamps are seconds on the time axis;   *)
(* isoformat() is a one-to-one rendering of them.                          *)
(***************************************************************************)
\* dur = int(q * tpu)
Duration(po) == (po.quantity * po.time_to_complete) \div 2

\* (1.0 / tpu) if tpu > 0 else float("inf"), as the fraction num/den
Density(po) ==
  IF po.time_to_complete > 0
  THEN [inf |-> FALSE, num |-> 2, den |-> po.time_to_complete]
  ELSE [inf |-> TRUE, num |-> 0, den |-> 1]

DensityGreater(a, b) ==
  IF a.inf THEN ~b.inf
  ELSE IF b.inf THEN FALSE
  ELSE a.num * b.den > b.num * a.den

RECURSIVE SortSet(_)
SortSet(S) ==
  IF S = {} THEN <<>>
  ELSE LET m == CHOOSE x \in S : \A y \in S : x <= y
       IN <<m>> \o SortSet(S \ {m})

\* sorted(set(available_lines) & mat_to_lines.get(po["material_number"], set()))
EligibleLinesForOrder(po) ==
  SortSet(Range(available_lines) \cap MatToLines(po.material_number))

Enrich(po) ==
  [order_number |-> po.order_number,
   material_number |-> po.material_number,
   quantity |-> po.quantity,
   time_to_complete |-> po.time_to_complete,
   duration_s |-> Duration(po),
   eligible_lines |-> EligibleLinesForOrder(po),
   density |-> Density(po)]

\* lines 121-134: enrich, and drop the orders without an eligible line
RECURSIVE EnrichFrom(_)
EnrichFrom(k) ==
  IF k > Len(production_orders) THEN <<>>
  ELSE IF EligibleLinesForOrder(production_orders[k]) = <<>> THEN EnrichFrom(k + 1)
  ELSE <<Enrich(production_orders[k])>> \o EnrichFrom(k + 1)

\* key (-density, duration_s, order_number), compared as Python compares tuples
JobKeyLess(a, b) ==
  \/ DensityGreater(a.density, b.density)
  \/ /\ ~DensityGreater(b.density, a.density)
     /\ \/ a.duration_s < b.duration_s
        \/ /\ a.duration_s = b.duration_s
           /\ a.order_number < b.order_number

RECURSIVE InsertJob(_, _)
InsertJob(x, s) ==
  IF s = <<>> THEN <<x>>
  ELSE IF ~JobKeyLess(x, s[Len(s)]) THEN Append(s, x)
       ELSE Append(InsertJob(x, SubSeq(s, 1, Len(s) - 1)), s[Len(s)])

\* enriched.sort(key=...), a stable sort
RECURSIVE SortJobs(_)
SortJobs(s) ==
  IF s = <<>> THEN <<>>
  ELSE InsertJob(s[Len(s)], SortJobs(SubSeq(s, 1, Len(s) - 1)))

\* the mutant: every eligible line is a candidate, whether the job fits or not
FitsAlways(used, dur) == TRUE

\* line_time_used[ln] + dur <= shift_len
Fits(used, dur) == used + dur <= shift_length_seconds

\* [ln for ln in job["eligible_lines"] if line_time_used[ln] + dur <= shift_len]
FitLines(job) ==
  SelectSeq(job.eligible_lines, LAMBDA ln : Fits(line_time_used[ln], job.duration_s))

\* key (shift_len - line_time_used[ln], -line_time_used[ln], ln)
LineKey(ln) == <<shift_length_seconds - line_time_used[ln], -line_time_used[ln], ln>>

TripleLess(a, b) ==
  \/ a[1] < b[1]
  \/ a[1] = b[1] /\ a[2] < b[2]
  \/ a[1] = b[1] /\ a[2] = b[2] /\ a[3] < b[3]

\* max(candidates, key=...)
BestLine(candidates) ==
  CHOOSE ln \in Range(candidates) :
    \A other \in Range(candidates) : ~TripleLess(LineKey(ln), LineKey(other))

\* the mutant: every order starts with the shift
StartAtShiftStart(ln) == shift_start

\* start_dt = shift_start + timedelta(seconds=line_time_used[best_line])
StartOf(ln) == shift_start + line_time_used[ln]

EmptySequences == [ln \in Range(available_lines) |-> <<>>]

\* if shift_len <= 0 or not available_lines: return {ln: [] for ln in available_lines}
SchedEarlyReturn ==
  /\ pc = "sched"
  /\ (shift_length_seconds <= 0 \/ available_lines = <<>>)
  /\ per_line_sequence' = EmptySequences
  /\ pc' = "sched_returned"
  /\ UNCHANGED <<available_lines, enriched, ji, line_time_used>>
  /\ UNCHANGED <<inputs, assignVars, mainVars, scoreVars>>

\* lines 115-141
SchedPrepare ==
  /\ pc = "sched"
  /\ ~(shift_length_seconds <= 0 \/ available_lines = <<>>)
  /\ enriched' = SortJobs(EnrichFrom(1))
  /\ ji' = 1
  /\ line_time_used' = [ln \in Range(available_lines) |-> 0]
  /\ per_line_sequence' = EmptySequences
  /\ pc' = "placing"
  /\ UNCHANGED available_lines
  /\ UNCHANGED <<inputs, assignVars, mainVars, scoreVars>>

\* if not candidates: continue
SkipJob ==
  /\ pc = "placing"
  /\ ji <= Len(enriched)
  /\ FitLines(enriched[ji]) = <<>>
  /\ ji' = ji + 1
  /\ UNCHANGED <<pc, available_lines, enriched, line_time_used, per_line_sequence>>
  /\ UNCHANGED <<inputs, assignVars, mainVars, scoreVars>>

\* lines 150-157
PlaceJob ==
  /\ pc = "placing"
  /\ ji <= Len(enriched)
  /\ FitLines(enriched[ji]) # <<>>
  /\ LET job == enriched[ji]
         best_line == BestLine(FitLines(job))
     IN /\ per_line_sequence' =
             [per_line_sequence EXCEPT ![best_line] =
                Append(@, [order_number |-> job.order_number,
                           start |-> StartOf(best_line)])]
        /\ line_time_used' = [line_time_used EXCEPT ![best_line] = @ + job.duration_s]
  /\ ji' = ji + 1
  /\ UNCHANGED <<pc, available_lines, enriched>>
  /\ UNCHANGED <<inputs, assignVars, mainVars, scoreVars>>

\* return per_line_sequence
SchedReturn ==
  /\ pc = "placing"
  /\ ji > Len(enriched)
  /\ pc' = "sched_returned"
  /\ UNCHANGED <<schedVars, inputs, assignVars, mainVars, scoreVars>>

NextSched ==
  \/ SchedEarlyReturn
  \/ SchedPrepare
  \/ SkipJob
  \/ PlaceJob
  \/ SchedReturn

NoAssignment ==
  /\ lines_available = <<>>
  /\ employees_available = <<>>

\* schedule_orders_greedy_nosplit called on its own
InitSched ==
  /\ pc = "sched"
  /\ NoAssignment
  /\ production_orders \in {s \in BSeq(Order, MaxOrders) : DistinctOrderNumbers(s)}
  /\ materials \in RequestMaterials
  /\ shift_start \in ShiftStarts
  /\ shift_length_seconds \in ShiftLengths
  /\ InitAssignVars /\ InitMainVars /\ InitScoreVars
  /\ available_lines \in LineLists
  /\ enriched = <<>>
  /\ ji = 1
  /\ line_time_used = <<>>
  /\ per_line_sequence = <<>>

SpecSched == InitSched /\ [][NextSched]_vars

\* score_assignment_quantity called on its own
InitScore ==
  /\ pc = "score"
  /\ NoAssignment
  /\ production_orders \in PlainOrders(MaxOrders)
  /\ materials \in MaterialLists
  /\ shift_start = 0
  /\ shift_length_seconds = 0
  /\ InitAssignVars /\ InitMainVars /\ InitSchedVars
  /\ lines_for_combo \in LineLists
  /\ po_i = 1
  /\ total_qty = 0

SpecScore == InitScore /\ [][NextScore]_vars

(***************************************************************************)
(* main: the selection of the assignment and the response.                 *)
(***************************************************************************)
\* [next(iter(d.keys())) for d in combo]
LinesFromCombo(combo) == [k \in 1..Len(combo) |-> combo[k][1]]

\* {list(d.keys())[0]: list(d.values())[0] for d in chosen}: the last entry
\* of a line wins
AssignmentMap(chosen) ==
  [ln \in Range(LinesFromCombo(chosen)) |->
     chosen[CHOOSE k \in 1..Len(chosen) :
              /\ chosen[k][1] = ln
              /\ \A j \in 1..Len(chosen) : chosen[j][1] = ln => j <= k][2]]

RECURSIVE InsertId(_, _)
InsertId(x, s) ==
  IF s = <<>> THEN <<x>>
  ELSE IF s[Len(s)] <= x THEN Append(s, x)
       ELSE Append(InsertId(x, SubSeq(s, 1, Len(s) - 1)), s[Len(s)])

\* sorted(chosen_lines)
RECURSIVE SortedIds(_)
SortedIds(s) ==
  IF s = <<>> THEN <<>>
  ELSE InsertId(s[Len(s)], SortedIds(SubSeq(s, 1, Len(s) - 1)))

\* line 201
EmptyResponse ==
  [shift_start |-> shift_start, lines |-> <<>>, assignment |-> <<>>, sequence |-> <<>>]

\* if not assignments: return the empty response
MainEmpty ==
  /\ pc = "returned"
  /\ results = <<>>
  /\ resp' = EmptyResponse
  /\ pc' = "responded"
  /\ UNCHANGED <<ci, best_idx, best_qty>>
  /\ UNCHANGED <<inputs, assignVars, schedVars, scoreVars>>

\* the mutant: a later assignment of equal score replaces the best one
NotWorse(qty, best) == qty >= best

\* if qty > best_qty
Better(qty, best) == qty > best

\* one iteration of `for i, combo in enumerate(assignments)`
MainScore ==
  /\ pc = "returned"
  /\ results # <<>>
  /\ ci <= Len(results)
  /\ LET qty == Score(LinesFromCombo(results[ci])) IN
     IF Better(qty, best_qty)
     THEN best_qty' = qty /\ best_idx' = ci
     ELSE UNCHANGED <<best_qty, best_idx>>
  /\ ci' = ci + 1
  /\ UNCHANGED <<pc, resp>>
  /\ UNCHANGED <<inputs, assignVars, schedVars, scoreVars>>

\* lines 218-229: the call of schedule_orders_greedy_nosplit
MainCallSchedule ==
  /\ pc = "returned"
  /\ results # <<>>
  /\ ci > Len(results)
  /\ available_lines' = LinesFromCombo(results[best_idx])
  /\ pc' = "sched"
  /\ UNCHANGED <<enriched, ji, line_time_used, per_line_sequence>>
  /\ UNCHANGED <<inputs, assignVars, mainVars, scoreVars>>

\* lines 232-238
MainRespond ==
  /\ pc = "sched_returned"
  /\ resp' = [shift_start |-> shift_start,
              lines |-> SortedIds(LinesFromCombo(results[best_idx])),
              assignment |-> AssignmentMap(results[best_idx]),
              sequence |-> per_line_sequence]
  /\ pc' = "responded"
  /\ UNCHANGED <<ci, best_idx, best_qty>>
  /\ UNCHANGED <<inputs, assignVars, schedVars, scoreVars>>

NextMain ==
  \/ NextAssign
  \/ MainEmpty
  \/ MainScore
  \/ MainCallSchedule
  \/ NextSched
  \/ MainRespond

\* a request
InitMain ==
  /\ pc = "kuhn"
  /\ lines_available \in LineLists
  /\ employees_available \in RequestEmployees
  /\ production_orders \in RequestOrders
  /\ materials \in RequestMaterials
  /\ shift_start \in ShiftStarts
  /\ shift_length_seconds \in RequestShiftLengths
  /\ InitAssignVars /\ InitMainVars /\ InitSchedVars /\ InitScoreVars

SpecMain == InitMain /\ [][NextMain]_vars

(***************************************************************************)
(* Brute-force reference for the qualification graph.                      *)
(***************************************************************************)
Edges ==
  {p \in Range(lines_available) \X EmpIds :
     \E k \in 1..Len(employees_available) :
        /\ employees_available[k].id = p[2]
        /\ p[1] \in employees_available[k].qualifiedLines}

IsMatching(M) == \A p \in M : \A q \in M : p # q => (p[1] # q[1] /\ p[2] # q[2])

Matchings == {M \in SUBSET Edges : IsMatching(M)}

BruteMax ==
  LET sizes == {Cardinality(M) : M \in Matchings}
  IN CHOOSE n \in sizes : \A m \in sizes : m <= n

MaximumMatchings == {M \in Matchings : Cardinality(M) = BruteMax}

NoRepeatedLine == Cardinality(Range(lines_available)) = Len(lines_available)

(***************************************************************************)
(* C1: after the Matcher loop, max_size equals the size of a true          *)
(* maximum-cardinality matching of the qualification graph.                *)
(***************************************************************************)
C1_MaxSizeIsMaximum ==
  pc \in {"backtrack", "returned"} => max_size = BruteMax

(***************************************************************************)
(* C10: after each top-level try_augment the Kuhn matching maps no two     *)
(* employees to the same line, every entry is a qualification edge, its    *)
(* size is at most the number of distinct lines, and it never shrinks.     *)
(***************************************************************************)
MatchIsValid ==
  /\ \A e1 \in DOMAIN match_emp_to_line : \A e2 \in DOMAIN match_emp_to_line :
        e1 # e2 => match_emp_to_line[e1] # match_emp_to_line[e2]
  /\ \A e \in DOMAIN match_emp_to_line : <<match_emp_to_line[e], e>> \in Edges
  /\ MatchSize <= Cardinality(Range(lines_available))

\* C1 and C10 on the requests that name no line twice
C1_WithoutRepeatedLine == NoRepeatedLine => C1_MaxSizeIsMaximum

C10_WithoutRepeatedLine == (NoRepeatedLine /\ pc = "kuhn") => MatchIsValid

C10_MatcherInvariant ==
  /\ [](pc = "kuhn" => MatchIsValid)
  /\ [][Cardinality(DOMAIN match_emp_to_line') >= MatchSize]_vars

(***************************************************************************)
(* C2: when the maximum matching size M is at least 1, the returned list   *)
(* is exactly the set of the matchings of size M: every entry is a valid   *)
(* matching of cardinality M, none is listed twice, none is missing.       *)
(***************************************************************************)
C2_AllMaximumMatchings ==
  (pc = "returned" /\ BruteMax >= 1) =>
     /\ \A k \in 1..Len(results) :
           /\ Len(results[k]) = BruteMax
           /\ Cardinality(Range(results[k])) = BruteMax
           /\ Range(results[k]) \in Matchings
     /\ \A j \in 1..Len(results) : \A k \in 1..Len(results) :
           j # k => results[j] # results[k]
     /\ {Range(results[k]) : k \in 1..Len(results)} = MaximumMatchings

\* C2 on the requests that name no line twice
C2_WithoutRepeatedLine == NoRepeatedLine => C2_AllMaximumMatchings

(***************************************************************************)
(* C9: the pruning test of backtrack(i) is exact: a node is cut if and     *)
(* only if no choice of skip/assign over the remaining lines brings the    *)
(* pair count to max_size.                                                 *)
(***************************************************************************)
\* some choice of skip/assign over ordered_lines[i..] brings n pairs to max_size
RECURSIVE CanReach(_, _, _)
CanReach(i, n, used) ==
  IF n = max_size THEN TRUE
  ELSE IF i > Len(ordered_lines) THEN FALSE
  ELSE \/ CanReach(i + 1, n, used)
       \/ \E e \in Range(LineToEmps(ordered_lines[i])) \ used :
             CanReach(i + 1, n + 1, used \cup {e})

AtNode == pc = "backtrack" /\ stack # <<>> /\ Top.k = 0

OrderOf(n) == CHOOSE po \in Range(production_orders) : po.order_number = n

RECURSIVE SumDurations(_, _)
SumDurations(seq, upto) ==
  IF upto = 0 THEN 0
  ELSE Duration(OrderOf(seq[upto].order_number)) + SumDurations(seq, upto - 1)

Slots == {sl \in (DOMAIN per_line_sequence) \X (1..MaxOrders) :
            sl[2] <= Len(per_line_sequence[sl[1]])}

PositionInEnriched(n) == CHOOSE k \in 1..Len(enriched) : enriched[k].order_number = n

InSchedule == pc \in {"placing", "sched_returned"}

(***************************************************************************)
(* C3: every placed order is on a line of the given line set that can run  *)
(* its material, no line carries more than shift_length_seconds, and no    *)
(* order occupies two slots.                                               *)
(***************************************************************************)
C3_ScheduleIsSafe ==
  InSchedule =>
    /\ \A sl \in Slots :
         LET n == per_line_sequence[sl[1]][sl[2]].order_number IN
         /\ \E po \in Range(production_orders) : po.order_number = n
         /\ sl[1] \in Range(available_lines)
         /\ sl[1] \in MatToLines(OrderOf(n).material_number)
    /\ \A ln \in DOMAIN per_line_sequence :
         SumDurations(per_line_sequence[ln], Len(per_line_sequence[ln]))
           <= shift_length_seconds
    /\ \A s1 \in Slots : \A s2 \in Slots :
         s1 # s2 => per_line_sequence[s1[1]][s1[2]].order_number
                      # per_line_sequence[s2[1]][s2[2]].order_number

\* an order of positive duration is placed, another one fits on none of its lines
C3_Witness ==
  /\ pc = "sched_returned"
  /\ \E sl \in Slots :
       Duration(OrderOf(per_line_sequence[sl[1]][sl[2]].order_number)) > 0
  /\ Cardinality(Slots) < Len(enriched)

(***************************************************************************)
(* C4: the line chosen for an order is, among its eligible lines on which  *)
(* it fits, the one with the greatest remaining capacity; ties go to the   *)
(* smallest used time, then to the smallest line identifier.               *)
(***************************************************************************)
ChosenAsSpecified(job, chosen) ==
  /\ chosen \in Range(job.eligible_lines)
  /\ line_time_used[chosen] + job.duration_s <= shift_length_seconds
  /\ \A ln \in Range(job.eligible_lines) :
       (ln # chosen /\ line_time_used[ln] + job.duration_s <= shift_length_seconds) =>
          LET remC == shift_length_seconds - line_time_used[chosen]
              remL == shift_length_seconds - line_time_used[ln]
          IN \/ remC > remL
             \/ remC = remL /\ line_time_used[chosen] < line_time_used[ln]
             \/ remC = remL /\ line_time_used[chosen] = line_time_used[ln] /\ chosen < ln

C4_BestLineTieBreak ==
  [][(pc = "placing" /\ per_line_sequence' # per_line_sequence) =>
       \A ln \in DOMAIN per_line_sequence :
          per_line_sequence'[ln] # per_line_sequence[ln] =>
             ChosenAsSpecified(enriched[ji], ln)]_vars

(***************************************************************************)
(* C7: on every line each entry starts at shift_start plus the durations   *)
(* of the entries before it, and the entries keep the placement order.     *)
(***************************************************************************)
C7_ContiguousStarts ==
  InSchedule =>
    \A sl \in Slots :
      LET seq == per_line_sequence[sl[1]] IN
      /\ seq[sl[2]].start = shift_start + SumDurations(seq, sl[2] - 1)
      /\ sl[2] > 1 => PositionInEnriched(seq[sl[2] - 1].order_number)
                        < PositionInEnriched(seq[sl[2]].order_number)

\* a line with two entries, the first of positive duration
C7_Witness ==
  /\ pc = "sched_returned"
  /\ \E ln \in DOMAIN per_line_sequence :
       /\ Len(per_line_sequence[ln]) >= 2
       /\ per_line_sequence[ln][2].start > shift_start

(***************************************************************************)
(* C8: the score is monotonic in the line set, and an order contributes    *)
(* its quantity once however many of its capable lines are in the set.     *)
(***************************************************************************)
RECURSIVE SumQuantities(_)
SumQuantities(K) ==
  IF K = {} THEN 0
  ELSE LET k == CHOOSE x \in K : TRUE
       IN production_orders[k].quantity + SumQuantities(K \ {k})

RunnableOrders(S) ==
  {k \in 1..Len(production_orders) :
     \E ln \in S : ln \in MatToLines(production_orders[k].material_number)}

C8_ScoreMonotonic ==
  pc = "score_returned" =>
    /\ total_qty = SumQuantities(RunnableOrders(Range(lines_for_combo)))
    /\ \A l \in SchedLineIds : Score(Append(lines_for_combo, l)) >= total_qty

\* a line whose addition raises the score, while an order that already
\* counted gets a second capable line in the set
C8_Witness ==
  /\ pc = "score_returned"
  /\ total_qty > 0
  /\ \E l \in SchedLineIds \ Range(lines_for_combo) :
       /\ Score(Append(lines_for_combo, l)) > total_qty
       /\ \E k \in RunnableOrders(Range(lines_for_combo)) :
            l \in MatToLines(production_orders[k].material_number)

(***************************************************************************)
(* C5: main chooses, from the lexicographically sorted list of maximum     *)
(* matchings, the one of greatest score, and the earliest of the list      *)
(* among those of greatest score.                                          *)
(***************************************************************************)
ScoreOfResult(k) == Score(LinesFromCombo(results[k]))

Selected ==
  /\ pc \in {"sched", "placing", "sched_returned", "responded"}
  /\ results # <<>>

C5_BestAssignmentChosen ==
  Selected =>
    /\ \A j \in 1..Len(results) : \A k \in 1..Len(results) :
         j < k => LexLess(results[j], results[k])
    /\ best_idx \in 1..Len(results)
    /\ \A k \in 1..Len(results) : ScoreOfResult(k) <= ScoreOfResult(best_idx)
    /\ \A k \in 1..(best_idx - 1) : ScoreOfResult(k) < ScoreOfResult(best_idx)
    /\ pc = "responded" => resp.assignment = AssignmentMap(results[best_idx])

\* the first matching of the list is not the best one
C5_Witness ==
  /\ pc = "responded"
  /\ Len(results) >= 2
  /\ best_idx = 2
  /\ ScoreOfResult(1) < ScoreOfResult(2)

(***************************************************************************)
(* C6: with no matching at all employee_assignment returns [] without      *)
(* entering the enumeration and the response is the empty result; with a   *)
(* matching of size 1 or more the response carries a non-empty assignment; *)
(* the pipeline always reaches its response.                               *)
(***************************************************************************)
C6_EmptyResult ==
  /\ (pc = "backtrack" \/ stack # <<>> \/ results_set # {} \/ results # <<>>)
        => BruteMax >= 1
  /\ pc = "responded" =>
        IF BruteMax = 0 THEN resp = EmptyResponse
        ELSE DOMAIN resp.assignment # {}
  /\ (pc \in {"kuhn", "returned"} /\ BruteMax = 0) => ENABLED NextMain

\* employees and lines exist, but nobody is qualified
C6_Witness ==
  /\ pc = "responded"
  /\ BruteMax = 0
  /\ lines_available # <<>>
  /\ employees_available # <<>>
  /\ resp = EmptyResponse

====
